---- MODULE Spec2Model ----
(***************************************************************************)
(* The slash-command Markdown editor of src/src/components/                *)
(* MarkdownEditor.tsx as a state machine.  One action is one DOM event     *)
(* delivered to the component: the handler, the re-render and the effects  *)
(* that React flushes before the next event.                               *)
(*                                                                         *)
(* Strings are sequences of characters; a character is a one-letter string,*)
(* a non-ASCII character is named by its code point ("u898b").  Offsets    *)
(* (selectionStart, slashPosition, selectedIndex) are 0-based as in the    *)
(* code.                                                                   *)
(***************************************************************************)
EXTENDS Integers, Sequences, FiniteSets, TLC

\* ------------------------------------------------------------------ bounds
\* User events (keys, pointer events) delivered in one run of Spec; the
\* deferred callbacks of insertCommand run besides them.
MaxEvents == 4
\* Longest buffer typed in SpecTyping.
MaxLen == 4
\* Longest query of the filter specification.
MaxQueryLen == 3
\* The longest buffer of the scenario specification.
ScenarioLen == 10
\* The longest buffer of the projector specification.
ProjectorLen == 3
\* The longest buffer of the selection specification.
SelectionLen == 3
\* The longest content typed into a note form.
FormLen == 2
\* The most characters typed into the new form's textarea while images are added.
UploadLen == 1
\* The most searchAll / preloadSearchData calls made against the cache.
MaxCalls == 2
\* The most steps of the clock.
MaxTicks == 2
\* The most clearSearchCache calls.
MaxClears == 1
\* The most searches submitted on the home page.
MaxSearches == 3
\* The most notes created in the book.
MaxNotes == 4
\* The most books of the library searchAll runs over.
MaxBooks == 2

\* Characters the user types in the editor specification.
TypedChars == {"/", " ", "\n", "h"}
\* Characters of a query in the filter specification.
QueryChars == {"h", "u", "U", "r", "R", "1", "u30ea", "x"}

\* ------------------------------------------------------- JavaScript strings
Min(a, b) == IF a < b THEN a ELSE b
Max(a, b) == IF a < b THEN b ELSE a

\* Mutant: the range asked for is taken as it is.
ClampNothing(n, lo, hi) == n

Clamp(n, lo, hi) == Max(lo, Min(n, hi))

\* s[i] with a 0-based index; "undefined" outside the string.
CharAt(s, i) == IF 0 <= i /\ i < Len(s) THEN s[i + 1] ELSE "undefined"

\* String.prototype.substring(start, end): both clamped to [0, length],
\* swapped when start > end.
JsSubstring(s, start, end) ==
    LET a == Clamp(start, 0, Len(s))
        b == Clamp(end, 0, Len(s))
        lo == Min(a, b)
        hi == Max(a, b)
    IN  SubSeq(s, lo + 1, hi)

\* String.prototype.substring(start): to the end of the string.
JsSubstringFrom(s, start) == JsSubstring(s, start, Len(s))

\* String.prototype.includes(sub).
JsIncludes(s, sub) ==
    \E i \in 0..(Len(s) - Len(sub)) : SubSeq(s, i + 1, i + Len(sub)) = sub

\* The lower-case form of one character: the letters A-Z change, nothing else
\* of the characters used here does.
ToLowerChar(c) ==
    CASE c = "A" -> "a" [] c = "B" -> "b" [] c = "C" -> "c" [] c = "D" -> "d"
      [] c = "E" -> "e" [] c = "F" -> "f" [] c = "G" -> "g" [] c = "H" -> "h"
      [] c = "I" -> "i" [] c = "J" -> "j" [] c = "K" -> "k" [] c = "L" -> "l"
      [] c = "M" -> "m" [] c = "N" -> "n" [] c = "O" -> "o" [] c = "P" -> "p"
      [] c = "Q" -> "q" [] c = "R" -> "r" [] c = "S" -> "s" [] c = "T" -> "t"
      [] c = "U" -> "u" [] c = "V" -> "v" [] c = "W" -> "w" [] c = "X" -> "x"
      [] c = "Y" -> "y" [] c = "Z" -> "z" [] OTHER -> c

\* Mutant: the text is compared as typed.
ToLowerCaseKeepsCase(s) == s

\* String.prototype.toLowerCase().
ToLowerCase(s) == [i \in 1..Len(s) |-> ToLowerChar(s[i])]

\* ------------------------------------------------------------ the catalog
slashCommands ==
    << [id          |-> <<"h", "1">>,
        label       |-> <<"u898b", "u51fa", "u3057", "1">>,
        description |-> <<"u5927", "u898b", "u51fa", "u3057">>,
        insert      |-> <<"#", " ">>,
        cursorOffset |-> 0],
       [id          |-> <<"h", "2">>,
        label       |-> <<"u898b", "u51fa", "u3057", "2">>,
        description |-> <<"u4e2d", "u898b", "u51fa", "u3057">>,
        insert      |-> <<"#", "#", " ">>,
        cursorOffset |-> 0],
       [id          |-> <<"h", "3">>,
        label       |-> <<"u898b", "u51fa", "u3057", "3">>,
        description |-> <<"u5c0f", "u898b", "u51fa", "u3057">>,
        insert      |-> <<"#", "#", "#", " ">>,
        cursorOffset |-> 0],
       [id          |-> <<"b", "u", "l", "l", "e", "t">>,
        label       |-> <<"u7b87", "u6761", "u66f8", "u304d">>,
        description |-> <<"u30fb", "u30ea", "u30b9", "u30c8">>,
        insert      |-> <<"-", " ">>,
        cursorOffset |-> 0],
       [id          |-> <<"n", "u", "m", "b", "e", "r">>,
        label       |-> <<"u756a", "u53f7", "u30ea", "u30b9", "u30c8">>,
        description |-> <<"1", ".", " ", "2", ".", " ", "3", ".">>,
        insert      |-> <<"1", ".", " ">>,
        cursorOffset |-> 0],
       [id          |-> <<"t", "o", "d", "o">>,
        label       |-> <<"T", "O", "D", "O", "u30ea", "u30b9", "u30c8">>,
        description |-> <<"u672a", "u5b8c", "u4e86", "u30bf", "u30b9", "u30af">>,
        insert      |-> <<"-", " ", "[", " ", "]", " ">>,
        cursorOffset |-> 0],
       [id          |-> <<"d", "o", "n", "e">>,
        label       |-> <<"u5b8c", "u4e86", "u30bf", "u30b9", "u30af">>,
        description |-> <<"u5b8c", "u4e86", "u6e08", "u307f", "u30bf", "u30b9", "u30af">>,
        insert      |-> <<"-", " ", "[", "x", "]", " ">>,
        cursorOffset |-> 0],
       [id          |-> <<"q", "u", "o", "t", "e">>,
        label       |-> <<"u5f15", "u7528">>,
        description |-> <<"u5f15", "u7528", "u30d6", "u30ed", "u30c3", "u30af">>,
        insert      |-> <<">", " ">>,
        cursorOffset |-> 0],
       [id          |-> <<"c", "o", "d", "e">>,
        label       |-> <<"u30b3", "u30fc", "u30c9", "u30d6", "u30ed", "u30c3", "u30af">>,
        description |-> <<"u30d7", "u30ed", "u30b0", "u30e9", "u30e0", "u30b3", "u30fc", "u30c9">>,
        insert      |-> <<"u0060", "u0060", "u0060", "\n", "\n", "u0060", "u0060", "u0060">>,
        cursorOffset |-> -4],
       [id          |-> <<"b", "o", "l", "d">>,
        label       |-> <<"u592a", "u5b57">>,
        description |-> <<"u5f37", "u8abf", "u30c6", "u30ad", "u30b9", "u30c8">>,
        insert      |-> <<"*", "*", "*", "*">>,
        cursorOffset |-> -2],
       [id          |-> <<"i", "t", "a", "l", "i", "c">>,
        label       |-> <<"u659c", "u4f53">>,
        description |-> <<"u30a4", "u30bf", "u30ea", "u30c3", "u30af">>,
        insert      |-> <<"*", "*">>,
        cursorOffset |-> -1],
       [id          |-> <<"l", "i", "n", "k">>,
        label       |-> <<"u30ea", "u30f3", "u30af">>,
        description |-> <<"U", "R", "L", "u30ea", "u30f3", "u30af">>,
        insert      |-> <<"[", "]", "(", "U", "R", "L", ")">>,
        cursorOffset |-> -6],
       [id          |-> <<"h", "r">>,
        label       |-> <<"u533a", "u5207", "u308a", "u7dda">>,
        description |-> <<"u6c34", "u5e73", "u7dda">>,
        insert      |-> <<"\n", "-", "-", "-", "\n">>,
        cursorOffset |-> 0],
       [id          |-> <<"t", "a", "b", "l", "e">>,
        label       |-> <<"u30c6", "u30fc", "u30d6", "u30eb">>,
        description |-> <<"u8868", "u3092", "u4f5c", "u6210">>,
        insert      |-> <<"|", " ", "u5217", "1", " ", "|", " ", "u5217", "2", " ", "|", " ", "u5217", "3", " ", "|", "\n", "|", " ", "-", "-", "-", " ", "|", " ", "-", "-", "-", " ", "|", " ", "-", "-", "-", " ", "|", "\n", "|", " ", "u30c7", "u30fc", "u30bf", " ", "|", " ", "u30c7", "u30fc", "u30bf", " ", "|", " ", "u30c7", "u30fc", "u30bf", " ", "|">>,
        cursorOffset |-> 0] >>

NumCommands == Len(slashCommands)

\* command.cursorOffset || 0 is the cursorOffset field above (0 where the
\* catalog gives none).

\* ------------------------------------------------------------------ state
VARIABLES
    value,           \* the embedding form's content, the textarea's text
    selectionStart,  \* textarea.selectionStart, the caret
    showMenu,        \* useState(false)
    menuFilter,      \* useState('')
    selectedIndex,   \* useState(0)
    slashPosition,   \* useState<number | null>(null)
    menuPosition,    \* useState({ top: 0, left: 0 })
    mirror,          \* mirrorRef.current is set (the mirror element is mounted)
    timers,          \* pending setTimeout(..., 0) callbacks of insertCommand
    lastEvent,       \* history: the event delivered last
    events,          \* history: how many user events were delivered
    query,           \* filter specification: the query tried
    shown            \* filter specification: the list computed for it

\* The note forms (EditNoteContent, NewNoteContent).
VARIABLES
    page,            \* which form is mounted: "edit" or "new"
    title,           \* useState('')
    content,         \* useState('')
    pageRef,         \* useState('')
    saving,          \* useState(false)
    route,           \* the page the router shows: "editor" or "book"
    pendingSave,     \* the updateNote / addNote calls awaiting the store
    savedNotes,      \* what the store holds of the calls that resolved
    mode,            \* useState<'edit' | 'preview'>('edit')
    uploading,       \* useState(false)
    uploadQueue,     \* handleFileSelect's loop: the file in flight, then the rest
    closureContent,  \* the content the running handleFileSelect closed over
    cursor,          \* textareaRef.current.selectionStart (= selectionEnd)
    imageTimers,     \* pending setTimeout(..., 0) callbacks of insertImageAtCursor
    uploadedImages   \* the files uploadNoteImage has stored

\* The search cache (lib/search.ts).
VARIABLES
    cachedBooks,     \* let cachedBooks: whose books, fetched when
    cachedNotesMap,  \* let cachedNotesMap: whose notes, fetched when
    cacheUserId,     \* let cacheUserId
    cacheTimestamp,  \* let cacheTimestamp
    now,             \* Date.now()
    calls,           \* searchAll / preloadSearchData calls awaiting the store
    clears,          \* history: how many times clearSearchCache was called
    taken            \* history: what the last step took from the cache

\* The home page (HomeContent with its SearchBox).
VARIABLES
    boxQuery,        \* SearchBox: useState(initialQuery)
    searchQuery,     \* HomeContent: useState('')
    searchResults,   \* useState<SearchResult[]>([])
    searching,       \* useState(false)
    searched,        \* useState(false)
    searches,        \* performSearchWithState calls awaiting searchAll
    lastSubmitted    \* history: the latest submission or clear

\* The notes of one book in the store (lib/notes.ts).
VARIABLES
    noteDocs,        \* the documents of users/{userId}/books/{bookId}/notes
    created          \* how many notes were created; the server's clock

\* searchAll over a library (lib/search.ts).
VARIABLES
    library,         \* the user's books in the store, each with its notes
    lastSearch       \* the latest searchAll call and what it returned

editorVars == <<value, selectionStart, showMenu, menuFilter, selectedIndex,
                slashPosition, menuPosition, mirror, timers, query, shown>>

saveVars == <<page, title, pageRef, saving, route, pendingSave, savedNotes>>

uploadVars == <<mode, uploading, uploadQueue, closureContent, cursor,
                imageTimers, uploadedImages>>

formVars == <<saveVars, content, uploadVars>>

cacheVars == <<cachedBooks, cachedNotesMap, cacheUserId, cacheTimestamp, now,
               calls, clears, taken>>

homeVars == <<boxQuery, searchQuery, searchResults, searching, searched,
              searches, lastSubmitted>>

storeVars == <<noteDocs, created>>

shapeVars == <<library, lastSearch>>

appVars == <<formVars, cacheVars, homeVars, storeVars, shapeVars>>

\* What a handler of one part leaves alone.
outsideForm == <<editorVars, cacheVars, homeVars, storeVars, shapeVars>>
outsideCache == <<editorVars, formVars, homeVars, storeVars, shapeVars>>
outsideHome == <<editorVars, formVars, cacheVars, storeVars, shapeVars>>
outsideStore == <<editorVars, formVars, cacheVars, homeVars, shapeVars>>
outsideShape == <<editorVars, formVars, cacheVars, homeVars, storeVars>>

vars == <<value, selectionStart, showMenu, menuFilter, selectedIndex,
          slashPosition, menuPosition, mirror, timers, lastEvent, events,
          query, shown, appVars>>

\* slashPosition === null
Null == -1

\* The form p, before anything is typed.
FormStart(p) ==
    /\ page = p
    /\ title = <<>>
    /\ content = <<>>
    /\ pageRef = <<>>
    /\ saving = FALSE
    /\ route = "editor"
    /\ pendingSave = <<>>
    /\ savedNotes = <<>>
    /\ mode = "edit"
    /\ uploading = FALSE
    /\ uploadQueue = <<>>
    /\ closureContent = <<>>
    /\ cursor = 0
    /\ imageTimers = <<>>
    /\ uploadedImages = {}

FormInit == FormStart("edit")

\* const CACHE_TTL = 5 * 60 * 1000
CACHE_TTL == 5 * 60 * 1000

\* The clock's step, and its value when the module is loaded.
Tick == CACHE_TTL \div 2
StartTime == 2 * CACHE_TTL

\* null in cachedBooks and cachedNotesMap; data is represented by the user it
\* was fetched for, the Date.now() of the fetch, and the number of
\* clearSearchCache calls made before the fetch was started.
NoData == [owner |-> "null", at |-> 0, epoch |-> 0]

\* The module's variables as declared.
CacheInit ==
    /\ cachedBooks = NoData
    /\ cachedNotesMap = NoData
    /\ cacheUserId = "null"
    /\ cacheTimestamp = 0
    /\ now = StartTime
    /\ calls = {}
    /\ clears = 0
    /\ taken = {}

\* Nothing submitted yet.
NoSubmission == [kind |-> "none", id |-> 0, query |-> <<>>, rejected |-> FALSE]

\* The home page as mounted, without a saved search to restore.
HomeInit ==
    /\ boxQuery = <<>>
    /\ searchQuery = <<>>
    /\ searchResults = <<>>
    /\ searching = FALSE
    /\ searched = FALSE
    /\ searches = {}
    /\ lastSubmitted = NoSubmission

\* A book without notes.
StoreInit ==
    /\ noteDocs = {}
    /\ created = 0

\* export const defaultSearchOptions
defaultSearchOptions ==
    [searchTitle |-> TRUE, searchAuthor |-> TRUE, searchPublisher |-> FALSE,
     searchDescription |-> TRUE, searchNotes |-> TRUE, searchIsbn |-> FALSE,
     searchStatus |-> FALSE]

\* The arguments of a searchAll call that has not been made yet.
Arguments(queryText, options) ==
    [query |-> queryText, options |-> options, called |-> FALSE,
     results |-> <<>>, fetches |-> <<>>]

NoSearch == Arguments(<<>>, defaultSearchOptions)

\* A user without books.
ShapeInit ==
    /\ library = <<>>
    /\ lastSearch = NoSearch

AppInit == FormInit /\ CacheInit /\ HomeInit /\ StoreInit /\ ShapeInit

OutsideFormInit == CacheInit /\ HomeInit /\ StoreInit /\ ShapeInit
OutsideShapeInit == FormInit /\ CacheInit /\ HomeInit /\ StoreInit

\* The history of one event: its kind, the character typed (or ""), the
\* catalog position of the command committed (or 0), and the menu flag,
\* trigger offset, caret and selected index it found.
Event(kind, ch, cmd) ==
    [kind |-> kind, ch |-> ch, cmd |-> cmd, wasOpen |-> showMenu,
     slash |-> slashPosition, caret |-> selectionStart,
     index |-> selectedIndex]

NoEvent ==
    [kind |-> "init", ch |-> "", cmd |-> 0, wasOpen |-> FALSE,
     slash |-> Null, caret |-> 0, index |-> 0]

\* A user event (a key, a pointer event) is delivered.
UserEvent(kind, ch, cmd) == lastEvent' = Event(kind, ch, cmd)

\* A pointer event on the list entry at index is delivered: the history keeps
\* the entry pointed at in place of the selected index.
PointerEvent(kind, index, cmd) ==
    lastEvent' = [Event(kind, "", cmd) EXCEPT !.index = index]

\* ------------------------------------------------------ filteredCommands
\* cmd.id.toLowerCase(), cmd.label.toLowerCase(), cmd.description.toLowerCase()
\* of every catalog entry.
LoweredCommands ==
    [i \in 1..NumCommands |->
        [id          |-> ToLowerCase(slashCommands[i].id),
         label       |-> ToLowerCase(slashCommands[i].label),
         description |-> ToLowerCase(slashCommands[i].description)]]

\* The predicate of slashCommands.filter, for the catalog entry at position i.
Matches(i, filter) ==
    LET f == ToLowerCase(filter)
    IN  \/ JsIncludes(LoweredCommands[i].id, f)
        \/ JsIncludes(LoweredCommands[i].label, f)
        \/ JsIncludes(LoweredCommands[i].description, f)

CatalogPositions == [i \in 1..NumCommands |-> i]

\* slashCommands.filter(...): the catalog positions of the entries kept, in
\* catalog order.  Entry k (0-based) of the rendered list is
\* slashCommands[FilteredCommands(filter)[k + 1]].
FilteredCommands(filter) ==
    SelectSeq(CatalogPositions, LAMBDA i : Matches(i, filter))

filteredCommands == FilteredCommands(menuFilter)

\* ------------------------------------------------------------ menu state
Menu(show, filter, slash) ==
    [showMenu |-> show, menuFilter |-> filter, slashPosition |-> slash]

CurrentMenu == Menu(showMenu, menuFilter, slashPosition)

closeMenu == Menu(FALSE, <<>>, Null)

\* Mutant: the space before the "/" is forgotten.
TriggerContextNoSpace(newValue, cursorPos) ==
    LET beforeSlash == IF cursorPos > 1 THEN CharAt(newValue, cursorPos - 2)
                       ELSE "\n"
    IN  beforeSlash = "\n" \/ cursorPos = 1

\* Mutant: every "/" opens the menu.
TriggerContextAlways(newValue, cursorPos) == TRUE

\* The condition under which a typed "/" opens the menu.
TriggerContext(newValue, cursorPos) ==
    LET beforeSlash == IF cursorPos > 1 THEN CharAt(newValue, cursorPos - 2)
                       ELSE "\n"
    IN  beforeSlash = "\n" \/ beforeSlash = " " \/ cursorPos = 1

\* Mutant: the filter text is not updated by typing.
FilterAfterInsertKeepsFilter(newValue, cursorPos) == CurrentMenu

\* The filter branch of an insertion while the menu is open.
FilterAfterInsert(newValue, cursorPos) ==
    LET filterText == JsSubstring(newValue, slashPosition + 1, cursorPos)
    IN  IF JsIncludes(filterText, <<" ">>) \/ JsIncludes(filterText, <<"\n">>)
        THEN closeMenu
        ELSE Menu(showMenu, filterText, slashPosition)

\* The branch of a change that did not lengthen the text while the menu is open.
FilterAfterDelete(newValue, cursorPos) ==
    IF cursorPos <= slashPosition
    THEN closeMenu
    ELSE Menu(showMenu, JsSubstring(newValue, slashPosition + 1, cursorPos),
              slashPosition)

\* The menu state handleChange leaves, given the textarea's new text and caret.
MenuAfterChange(newValue, cursorPos) ==
    IF Len(newValue) > Len(value)
    THEN LET addedChar == CharAt(newValue, cursorPos - 1)
         IN  IF addedChar = "/"
             THEN IF TriggerContext(newValue, cursorPos)
                  THEN Menu(TRUE, <<>>, cursorPos - 1)
                  ELSE CurrentMenu
             ELSE IF showMenu /\ slashPosition # Null
                  THEN FilterAfterInsert(newValue, cursorPos)
                  ELSE CurrentMenu
    ELSE IF showMenu /\ slashPosition # Null
         THEN FilterAfterDelete(newValue, cursorPos)
         ELSE CurrentMenu

\* Mutant: the effect runs when the menu opens, not when the filter changes.
SelectedIndexEffectOnOpenOnly(menu, index) ==
    IF menu.showMenu /\ menu.showMenu # showMenu THEN 0 ELSE index

\* Mutant: the effect depends on the filter alone.
SelectedIndexEffectOnFilterOnly(menu, index) ==
    IF menu.showMenu /\ menu.menuFilter # menuFilter THEN 0 ELSE index

\* useEffect(() => { if (showMenu) setSelectedIndex(0) }, [showMenu, menuFilter])
\* run after the render that follows a handler: index is what the handler set.
SelectedIndexEffect(menu, index) ==
    IF menu.showMenu /\ (menu.showMenu # showMenu \/ menu.menuFilter # menuFilter)
    THEN 0
    ELSE index

SetMenu(menu, index) ==
    /\ showMenu' = menu.showMenu
    /\ menuFilter' = menu.menuFilter
    /\ slashPosition' = menu.slashPosition
    /\ selectedIndex' = SelectedIndexEffect(menu, index)

\* ------------------------------------------------- calculateCaretPosition
\* The layout of the mirror's text: the row of its last line and the number
\* of characters on that line (lines as long as they are typed, no wrapping).
LastLine(s) ==
    LET breaks == {i \in 1..Len(s) : s[i] = "\n"}
        last == IF breaks = {} THEN 0
                ELSE CHOOSE i \in breaks : \A j \in breaks : j <= i
    IN  [row |-> Cardinality(breaks), col |-> Len(s) - last]

\* Mutant: the mirror is measured whether it is there or not.
calculateCaretPositionUnguarded(text, position) ==
    LET span == LastLine(JsSubstring(text, 0, position))
    IN  [top |-> span.row + 1, left |-> span.col]

\* calculateCaretPosition(textarea, position), text the textarea's value: the
\* place of the span appended to the mirror, top in lines (one line below the
\* caret's, the textarea not scrolled), left in characters.
calculateCaretPosition(text, position) ==
    IF ~mirror THEN [top |-> 0, left |-> 0]
    ELSE LET span == LastLine(JsSubstring(text, 0, position))
         IN  [top |-> span.row + 1, left |-> span.col]

\* Mutant: the popup follows the caret while the menu is open.
PositionAfterChangeFollowsCaret(newValue, cursorPos) ==
    IF showMenu \/ (/\ Len(newValue) > Len(value)
                    /\ CharAt(newValue, cursorPos - 1) = "/"
                    /\ TriggerContext(newValue, cursorPos))
    THEN calculateCaretPosition(newValue, cursorPos)
    ELSE menuPosition

\* The popup position handleChange leaves: set where the menu is opened.
PositionAfterChange(newValue, cursorPos) ==
    IF /\ Len(newValue) > Len(value)
       /\ CharAt(newValue, cursorPos - 1) = "/"
       /\ TriggerContext(newValue, cursorPos)
    THEN calculateCaretPosition(newValue, cursorPos)
    ELSE menuPosition

\* handleChange, with the change event's text and caret.
handleChange(newValue, cursorPos) ==
    /\ SetMenu(MenuAfterChange(newValue, cursorPos), selectedIndex)
    /\ menuPosition' = PositionAfterChange(newValue, cursorPos)
    /\ value' = newValue
    /\ selectionStart' = cursorPos

\* The text the textarea holds after one character is typed at the caret.
InsertChar(s, pos, ch) == SubSeq(s, 1, pos) \o <<ch>> \o SubSeq(s, pos + 1, Len(s))

\* The text the textarea holds after the character at pos is removed.
RemoveChar(s, pos) == SubSeq(s, 1, pos) \o SubSeq(s, pos + 2, Len(s))

\* ------------------------------------------------------------ insertCommand
\* Mutant: the "/" and the filter typed after it stay in the text.
SpliceTextKeepsTyped(command) ==
    JsSubstring(value, 0, selectionStart) \o slashCommands[command].insert
        \o JsSubstringFrom(value, selectionStart)

\* before + command.insert + after
SpliceText(command) ==
    JsSubstring(value, 0, slashPosition) \o slashCommands[command].insert
        \o JsSubstringFrom(value, selectionStart)

\* Mutant: the caret is asked for behind the inserted text.
NewCursorPosAtEnd(slash, command) == slash + Len(slashCommands[command].insert)

\* The caret the deferred callback asks for.
NewCursorPos(slash, command) ==
    slash + Len(slashCommands[command].insert) + slashCommands[command].cursorOffset

\* The record of a pending setTimeout callback: what its closure holds.
Timer(slash, command) == [slashPosition |-> slash, command |-> command]

\* Mutant: the menu is left open after the text is replaced.
insertCommandKeepsMenu(command) ==
    /\ slashPosition # Null
    /\ value' = SpliceText(command)
    /\ selectionStart' = Len(SpliceText(command))
    /\ UNCHANGED <<showMenu, menuFilter, slashPosition, selectedIndex>>
    /\ timers' = Append(timers, Timer(slashPosition, command))

\* insertCommand(command), command a catalog position: the parent's content is replaced, which moves the
\* textarea's caret to the end of the new text; the menu closes; the caret is
\* repositioned later, by the timer.
insertCommand(command) ==
    /\ slashPosition # Null
    /\ value' = SpliceText(command)
    /\ selectionStart' = Len(SpliceText(command))
    /\ SetMenu(closeMenu, selectedIndex)
    /\ timers' = Append(timers, Timer(slashPosition, command))

\* filteredCommands[selectedIndex] is defined.
HasSelected == 0 <= selectedIndex /\ selectedIndex < Len(filteredCommands)

Selected == filteredCommands[selectedIndex + 1]

\* ------------------------------------------------------------------ events
\* The editor after construction, nothing typed.
EditorInit ==
    /\ value = <<>>
    /\ selectionStart = 0
    /\ showMenu = FALSE
    /\ menuFilter = <<>>
    /\ selectedIndex = 0
    /\ slashPosition = Null
    /\ menuPosition = [top |-> 0, left |-> 0]
    /\ mirror = TRUE
    /\ timers = <<>>
    /\ lastEvent = NoEvent
    /\ events = 0
    /\ query = <<>>
    /\ shown = FilteredCommands(<<>>)

Init ==
    /\ EditorInit
    /\ AppInit

\* A key that types ch at the caret: the textarea changes, then handleChange.
Type(ch) ==
    /\ handleChange(InsertChar(value, selectionStart, ch), selectionStart + 1)
    /\ UserEvent("type", ch, 0)
    /\ UNCHANGED <<timers, query, shown, mirror, appVars>>

\* Backspace: the character before the caret goes.
Backspace ==
    /\ selectionStart > 0
    /\ handleChange(RemoveChar(value, selectionStart - 1), selectionStart - 1)
    /\ UserEvent("backspace", "", 0)
    /\ UNCHANGED <<timers, query, shown, mirror, appVars>>

\* Delete: the character at the caret goes, the caret stays.
DeleteForward ==
    /\ selectionStart < Len(value)
    /\ handleChange(RemoveChar(value, selectionStart), selectionStart)
    /\ UserEvent("delete", "", 0)
    /\ UNCHANGED <<timers, query, shown, mirror, appVars>>

\* ArrowLeft / ArrowRight: handleKeyDown has no case for them, the caret moves.
ArrowLeft ==
    /\ selectionStart > 0
    /\ selectionStart' = selectionStart - 1
    /\ UserEvent("left", "", 0)
    /\ UNCHANGED <<value, showMenu, menuFilter, selectedIndex, slashPosition,
                   timers, query, shown, mirror, menuPosition, appVars>>

ArrowRight ==
    /\ selectionStart < Len(value)
    /\ selectionStart' = selectionStart + 1
    /\ UserEvent("right", "", 0)
    /\ UNCHANGED <<value, showMenu, menuFilter, selectedIndex, slashPosition,
                   timers, query, shown, mirror, menuPosition, appVars>>

\* Mutant: ArrowDown stops at the last entry.
IndexAfterArrowDownNoWrap(prev) ==
    IF prev < Len(filteredCommands) - 1 THEN prev + 1 ELSE prev

\* setSelectedIndex((prev) => prev < filteredCommands.length - 1 ? prev + 1 : 0)
IndexAfterArrowDown(prev) ==
    IF prev < Len(filteredCommands) - 1 THEN prev + 1 ELSE 0

\* setSelectedIndex((prev) => prev > 0 ? prev - 1 : filteredCommands.length - 1)
IndexAfterArrowUp(prev) ==
    IF prev > 0 THEN prev - 1 ELSE Len(filteredCommands) - 1

ArrowDown ==
    /\ showMenu
    /\ selectedIndex' = IndexAfterArrowDown(selectedIndex)
    /\ UserEvent("arrowdown", "", 0)
    /\ UNCHANGED <<value, selectionStart, showMenu, menuFilter, slashPosition,
                   timers, query, shown, mirror, menuPosition, appVars>>

ArrowUp ==
    /\ showMenu
    /\ selectedIndex' = IndexAfterArrowUp(selectedIndex)
    /\ UserEvent("arrowup", "", 0)
    /\ UNCHANGED <<value, selectionStart, showMenu, menuFilter, slashPosition,
                   timers, query, shown, mirror, menuPosition, appVars>>

\* The catalog position of the command a commit key inserts, 0 if none:
\* filteredCommands[selectedIndex] is undefined, or insertCommand returns early.
Committed == IF HasSelected /\ slashPosition # Null THEN Selected ELSE 0

\* Mutant: Enter on an empty list closes the menu.
EnterKeyClosesEmpty ==
    /\ showMenu
    /\ IF HasSelected /\ slashPosition # Null
       THEN insertCommand(Selected)
       ELSE /\ SetMenu(closeMenu, selectedIndex)
            /\ UNCHANGED <<value, selectionStart, timers>>

\* case 'Enter', what it does to the editor: e.preventDefault(), then the
\* highlighted entry, if there is one, is committed.
EnterKey ==
    /\ showMenu
    /\ IF HasSelected /\ slashPosition # Null
       THEN insertCommand(Selected)
       ELSE UNCHANGED <<value, selectionStart, showMenu, menuFilter,
                        selectedIndex, slashPosition, timers>>

\* Mutant: Tab closes the menu and commits nothing.
TabKeyClosesOnly ==
    /\ showMenu
    /\ SetMenu(closeMenu, selectedIndex)
    /\ UNCHANGED <<value, selectionStart, timers>>

\* case 'Tab', what it does to the editor.
TabKey ==
    /\ showMenu
    /\ IF HasSelected /\ slashPosition # Null
       THEN insertCommand(Selected)
       ELSE UNCHANGED <<value, selectionStart, showMenu, menuFilter,
                        selectedIndex, slashPosition, timers>>

Enter ==
    /\ EnterKey
    /\ UserEvent("enter", "", Committed)
    /\ UNCHANGED <<query, shown, mirror, menuPosition, appVars>>

Tab ==
    /\ TabKey
    /\ UserEvent("tab", "", Committed)
    /\ UNCHANGED <<query, shown, mirror, menuPosition, appVars>>

\* Mutant: cancelling also takes the "/" and what follows it out of the text.
EscapeDropsTyped ==
    /\ showMenu
    /\ SetMenu(closeMenu, selectedIndex)
    /\ UserEvent("escape", "", 0)
    /\ value' = JsSubstring(value, 0, slashPosition)
    /\ selectionStart' = Min(selectionStart, slashPosition)
    /\ UNCHANGED <<timers, query, shown, mirror, menuPosition, appVars>>

\* case 'Escape'
Escape ==
    /\ showMenu
    /\ SetMenu(closeMenu, selectedIndex)
    /\ UserEvent("escape", "", 0)
    /\ UNCHANGED <<value, selectionStart, timers, query, shown, mirror, menuPosition, appVars>>

\* mousedown outside the popup while the listener is attached (showMenu).
ClickOutside ==
    /\ showMenu
    /\ SetMenu(closeMenu, selectedIndex)
    /\ UserEvent("clickoutside", "", 0)
    /\ UNCHANGED <<value, selectionStart, timers, query, shown, mirror, menuPosition, appVars>>

\* onMouseEnter of the entry at index.
Hover(index) ==
    /\ showMenu
    /\ selectedIndex' = index
    /\ PointerEvent("hover", index, 0)
    /\ UNCHANGED <<value, selectionStart, showMenu, menuFilter, slashPosition,
                   timers, query, shown, mirror, menuPosition, appVars>>

\* onClick of the entry at index.
ClickEntry(index) ==
    /\ showMenu
    /\ IF slashPosition # Null
       THEN /\ insertCommand(filteredCommands[index + 1])
            /\ PointerEvent("click", index, filteredCommands[index + 1])
       ELSE /\ PointerEvent("click", index, 0)
            /\ UNCHANGED <<value, selectionStart, showMenu, menuFilter,
                           selectedIndex, slashPosition, timers>>
    /\ UNCHANGED <<query, shown, mirror, menuPosition, appVars>>

\* The setTimeout callback of insertCommand: textarea.setSelectionRange clamps
\* to the text the textarea holds when it runs.
TimerFires ==
    /\ timers # <<>>
    /\ LET t == Head(timers)
       IN  selectionStart' =
               Clamp(NewCursorPos(t.slashPosition, t.command),
                     0, Len(value))
    /\ timers' = Tail(timers)
    /\ lastEvent' = Event("timer", "", Head(timers).command)
    /\ UNCHANGED <<value, showMenu, menuFilter, selectedIndex, slashPosition,
                   query, shown, mirror, menuPosition, appVars>>

\* One of at most MaxEvents user events.
Counted == events < MaxEvents /\ events' = events + 1

Next ==
    \/ Counted /\ \E ch \in TypedChars : Type(ch)
    \/ Counted /\ Backspace
    \/ Counted /\ DeleteForward
    \/ Counted /\ ArrowLeft
    \/ Counted /\ ArrowRight
    \/ Counted /\ ArrowDown
    \/ Counted /\ ArrowUp
    \/ Counted /\ Enter
    \/ Counted /\ Tab
    \/ Counted /\ Escape
    \/ Counted /\ ClickOutside
    \/ Counted /\ \E index \in 0..(Len(filteredCommands) - 1) : Hover(index)
    \/ Counted /\ \E index \in 0..(Len(filteredCommands) - 1) : ClickEntry(index)
    \/ TimerFires /\ UNCHANGED events

Spec == Init /\ [][Next]_vars

\* ------------------------------------- the keys that move the selection
\* The text keys in buffers of at most SelectionLen characters, with the arrow
\* keys and the pointer over the entries, any number of them.
SelectionChars == {"/", "h"}

NextSelection ==
    \/ /\ Len(value) < SelectionLen
       /\ UNCHANGED events
       /\ \E ch \in SelectionChars : Type(ch)
    \/ Backspace /\ UNCHANGED events
    \/ ArrowLeft /\ UNCHANGED events
    \/ ArrowRight /\ UNCHANGED events
    \/ ArrowDown /\ UNCHANGED events
    \/ ArrowUp /\ UNCHANGED events
    \/ UNCHANGED events /\ \E index \in 0..(Len(filteredCommands) - 1) : Hover(index)

SpecSelection == Init /\ [][NextSelection]_vars

\* ------------------------------------- typing and caret keys, any number
\* The text keys alone, in buffers of at most MaxLen characters.
NextTyping ==
    \/ Len(value) < MaxLen /\ UNCHANGED events /\ \E ch \in TypedChars : Type(ch)
    \/ Backspace /\ UNCHANGED events
    \/ DeleteForward /\ UNCHANGED events
    \/ ArrowLeft /\ UNCHANGED events
    \/ ArrowRight /\ UNCHANGED events

SpecTyping == Init /\ [][NextTyping]_vars

\* ------------------------------------------- a note that holds "Hello\n"
\* The editor mounted on a note whose content is "Hello" and a newline, the
\* caret put at its end; the keys of a slash command are typed, Enter commits.
Hello == <<"H", "e", "l", "l", "o", "\n">>

ScenarioChars == {"/", "b", "u", "l"}

InitScenarioA ==
    /\ value = Hello
    /\ selectionStart = Len(Hello)
    /\ showMenu = FALSE
    /\ menuFilter = <<>>
    /\ selectedIndex = 0
    /\ slashPosition = Null
    /\ menuPosition = [top |-> 0, left |-> 0]
    /\ mirror = TRUE
    /\ timers = <<>>
    /\ lastEvent = [NoEvent EXCEPT !.caret = Len(Hello)]
    /\ events = 0
    /\ query = <<>>
    /\ shown = FilteredCommands(<<>>)
    /\ AppInit

NextScenarioA ==
    \/ Len(value) < ScenarioLen /\ UNCHANGED events
           /\ \E ch \in ScenarioChars : Type(ch)
    \/ Enter /\ UNCHANGED events
    \/ TimerFires /\ UNCHANGED events

SpecScenarioA == InitScenarioA /\ [][NextScenarioA]_vars

\* ------------------------------------- the projector, mirror there or not
\* calculateCaretPosition with both values of its guard: the mirror element
\* is mounted or it is not, and the text keys are typed.
InitProjector ==
    /\ value = <<>>
    /\ selectionStart = 0
    /\ showMenu = FALSE
    /\ menuFilter = <<>>
    /\ selectedIndex = 0
    /\ slashPosition = Null
    /\ menuPosition = [top |-> 0, left |-> 0]
    /\ mirror \in BOOLEAN
    /\ timers = <<>>
    /\ lastEvent = NoEvent
    /\ events = 0
    /\ query = <<>>
    /\ shown = FilteredCommands(<<>>)
    /\ AppInit

NextProjector ==
    \/ Len(value) < ProjectorLen /\ UNCHANGED events
           /\ \E ch \in TypedChars : Type(ch)
    \/ Backspace /\ UNCHANGED events

SpecProjector == InitProjector /\ [][NextProjector]_vars

\* ---------------------------------------------- the filter, input by input
InitFilter ==
    /\ value = <<>>
    /\ selectionStart = 0
    /\ showMenu = FALSE
    /\ menuFilter = <<>>
    /\ selectedIndex = 0
    /\ slashPosition = Null
    /\ menuPosition = [top |-> 0, left |-> 0]
    /\ mirror = TRUE
    /\ timers = <<>>
    /\ lastEvent = NoEvent
    /\ events = 0
    /\ query = <<>>
    /\ shown = FilteredCommands(<<>>)
    /\ AppInit

\* The list computed for the query with one more character.
Refilter ==
    /\ Len(query) < MaxQueryLen
    /\ \E c \in QueryChars :
          /\ query' = Append(query, c)
          /\ shown' = FilteredCommands(Append(query, c))
    /\ UNCHANGED <<value, selectionStart, showMenu, menuFilter, selectedIndex,
                   slashPosition, menuPosition, mirror, timers, lastEvent,
                   events, appVars>>

NextFilter == Refilter

SpecFilter == InitFilter /\ [][NextFilter]_vars

\* ===================================================== the note forms
\* Characters typed into the content field, and what the other fields take.
FormChars == {"h", " "}
FormTitles == {<<>>, <<"t">>}
FormPageRefs == {<<>>, <<"p">>}

\* !s.trim(): nothing but white space
TrimIsEmpty(s) == \A k \in 1..Len(s) : s[k] \in {" ", "\n"}

\* title || undefined, pageRef || undefined: an empty string is not sent
OrUndefined(s) == IF s = <<>> THEN <<"undefined">> ELSE s

\* onChange of the content field
setContent(newContent) ==
    /\ route = "editor"
    /\ content' = newContent
    /\ lastEvent' = Event("setContent", "", 0)
    /\ UNCHANGED <<outsideForm, events, page, title, pageRef, saving, route,
                   pendingSave, savedNotes, uploadVars>>

\* onChange of the title field
setTitle(newTitle) ==
    /\ route = "editor"
    /\ title' = newTitle
    /\ lastEvent' = Event("setTitle", "", 0)
    /\ UNCHANGED <<outsideForm, events, page, content, pageRef, saving, route,
                   pendingSave, savedNotes, uploadVars>>

\* onChange of the page reference field
setPageRef(newPageRef) ==
    /\ route = "editor"
    /\ pageRef' = newPageRef
    /\ lastEvent' = Event("setPageRef", "", 0)
    /\ UNCHANGED <<outsideForm, events, page, title, content, saving, route,
                   pendingSave, savedNotes, uploadVars>>

\* The save button takes a click: disabled={!content.trim() || saving} on the
\* edit form, disabled={saving || uploading} on the new form.
SaveEnabled ==
    /\ route = "editor"
    /\ ~saving
    /\ page = "edit" => ~TrimIsEmpty(content)
    /\ page = "new" => ~uploading

\* handleSave up to its await: an empty content returns (with an alert on the
\* new form), otherwise setSaving(true) and the call goes to the store.
handleSave ==
    /\ SaveEnabled
    /\ IF TrimIsEmpty(content)
       THEN /\ lastEvent' = Event("alert", "", 0)
            /\ UNCHANGED <<saving, pendingSave>>
       ELSE /\ saving' = TRUE
            /\ pendingSave' = Append(pendingSave,
                                     [title |-> OrUndefined(title),
                                      content |-> content,
                                      pageReference |-> OrUndefined(pageRef)])
            /\ lastEvent' = Event("save", "", 0)
    /\ UNCHANGED <<outsideForm, events, page, title, content, pageRef, route,
                   savedNotes, uploadVars>>

\* The call resolves: router.push to the book page, then finally.
SaveResolved ==
    /\ pendingSave # <<>>
    /\ savedNotes' = Append(savedNotes, Head(pendingSave))
    /\ pendingSave' = Tail(pendingSave)
    /\ route' = "book"
    /\ saving' = FALSE
    /\ lastEvent' = Event("saveResolved", "", 0)
    /\ UNCHANGED <<outsideForm, events, page, title, content, pageRef,
                   uploadVars>>

\* Mutant: no finally, the saving flag stays set after a rejection.
SaveRejectedKeepsSaving ==
    /\ pendingSave # <<>>
    /\ pendingSave' = Tail(pendingSave)
    /\ lastEvent' = Event("saveRejected", "", 0)
    /\ UNCHANGED <<outsideForm, events, page, title, content, pageRef, route,
                   saving, savedNotes, uploadVars>>

\* The call rejects: catch logs (and alerts on the new form), then finally.
SaveRejected ==
    /\ pendingSave # <<>>
    /\ pendingSave' = Tail(pendingSave)
    /\ saving' = FALSE
    /\ lastEvent' = Event("saveRejected", "", 0)
    /\ UNCHANGED <<outsideForm, events, page, title, content, pageRef, route,
                   savedNotes, uploadVars>>

InitSave ==
    /\ EditorInit
    /\ \E p \in {"edit", "new"} : FormStart(p)
    /\ OutsideFormInit

NextSave ==
    \/ /\ Len(content) < FormLen
       /\ \E ch \in FormChars : setContent(Append(content, ch))
    \/ /\ content # <<>>
       /\ setContent(SubSeq(content, 1, Len(content) - 1))
    \/ \E t \in FormTitles : setTitle(t)
    \/ \E r \in FormPageRefs : setPageRef(r)
    \/ handleSave
    \/ SaveResolved
    \/ SaveRejected

SpecSave == InitSave /\ [][NextSave]_vars

\* ------------------------------------------- image insertion (new form)
\* The character typed into the textarea, and the image files to select.
UploadChars == {"h"}
Files == {"a", "b"}

\* result.url of uploadNoteImage for a file
ImageUrl(file) == IF file = "a" THEN "url-a" ELSE "url-b"

\* `![${altText}](${imageUrl})`, the alt text being the file's name
ImageMarkdown(file) == <<"!", "[", file, "]", "(", ImageUrl(file), ")">>

\* before.length > 0 && !before.endsWith('\n') ? '\n' : ''
InsertPrefix(before) ==
    IF Len(before) > 0 /\ before[Len(before)] # "\n" THEN <<"\n">> ELSE <<>>

\* after.length > 0 && !after.startsWith('\n') ? '\n' : ''
InsertSuffix(after) ==
    IF Len(after) > 0 /\ after[1] # "\n" THEN <<"\n">> ELSE <<>>

\* insertImageAtCursor as the caller holds it: text is the content of the
\* render in which that callback was created, the selection is read from the
\* textarea as it is now. Setting the textarea's value puts the caret at the
\* end; the setTimeout callback places it behind the image later.
insertImageAtCursor(text, file) ==
    IF mode # "edit"
    THEN /\ content' = content \o <<"\n">> \o ImageMarkdown(file) \o <<"\n">>
         /\ UNCHANGED <<cursor, imageTimers>>
    ELSE LET start == cursor
             before == JsSubstring(text, 0, start)
             after == JsSubstringFrom(text, start)
             prefix == InsertPrefix(before)
             suffix == InsertSuffix(after)
             newContent == before \o prefix \o ImageMarkdown(file)
                               \o suffix \o after
         IN  /\ content' = newContent
             /\ cursor' = Len(newContent)
             /\ imageTimers' =
                    Append(imageTimers,
                           start + Len(prefix) + Len(ImageMarkdown(file))
                               + Len(suffix))

\* onChange of the file input with the files selected: setUploading(true),
\* and the first upload is awaited.
handleFileSelect(files) ==
    /\ route = "editor"
    /\ mode = "edit"
    /\ ~uploading
    /\ files # <<>>
    /\ uploading' = TRUE
    /\ uploadQueue' = files
    /\ closureContent' = content
    /\ lastEvent' = Event("select", "", 0)
    /\ UNCHANGED <<outsideForm, events, saveVars, content, mode, cursor,
                   imageTimers, uploadedImages>>

\* uploadNoteImage resolves: the image is inserted, and the loop goes on to
\* the next file or ends in finally.
UploadResolved ==
    /\ uploadQueue # <<>>
    /\ uploadedImages' = uploadedImages \cup {Head(uploadQueue)}
    /\ insertImageAtCursor(closureContent, Head(uploadQueue))
    /\ uploadQueue' = Tail(uploadQueue)
    /\ uploading' = (Tail(uploadQueue) # <<>>)
    /\ lastEvent' = Event("uploadResolved", Head(uploadQueue), 0)
    /\ UNCHANGED <<outsideForm, events, saveVars, mode, closureContent>>

\* uploadNoteImage rejects: catch alerts, the loop is left, finally.
UploadRejected ==
    /\ uploadQueue # <<>>
    /\ uploadQueue' = <<>>
    /\ uploading' = FALSE
    /\ lastEvent' = Event("uploadRejected", Head(uploadQueue), 0)
    /\ UNCHANGED <<outsideForm, events, saveVars, content, mode,
                   closureContent, cursor, imageTimers, uploadedImages>>

\* A character typed into the textarea at the caret: setContent(e.target.value)
typeContent(ch) ==
    /\ route = "editor"
    /\ mode = "edit"
    /\ events < UploadLen
    /\ events' = events + 1
    /\ content' = InsertChar(content, cursor, ch)
    /\ cursor' = cursor + 1
    /\ lastEvent' = Event("typeContent", ch, 0)
    /\ UNCHANGED <<outsideForm, saveVars, mode, uploading, uploadQueue,
                   closureContent, imageTimers, uploadedImages>>

\* A click into the textarea puts the caret at pos.
setCursor(pos) ==
    /\ route = "editor"
    /\ mode = "edit"
    /\ cursor # pos
    /\ cursor' = pos
    /\ lastEvent' = Event("setCursor", "", 0)
    /\ UNCHANGED <<outsideForm, events, saveVars, content, mode, uploading,
                   uploadQueue, closureContent, imageTimers, uploadedImages>>

\* The setTimeout callback of insertImageAtCursor: setSelectionRange clamps to
\* the text the textarea holds when it runs.
ImageTimerFires ==
    /\ imageTimers # <<>>
    /\ imageTimers' = Tail(imageTimers)
    /\ cursor' = Clamp(Head(imageTimers), 0, Len(content))
    /\ lastEvent' = Event("imageTimer", "", 0)
    /\ UNCHANGED <<outsideForm, events, saveVars, content, mode, uploading,
                   uploadQueue, closureContent, uploadedImages>>

\* The edit / preview switch. The preview unmounts the textarea, and the
\* callbacks pending for it act on a detached element; the textarea mounted on
\* the way back has its caret at the start or at the end of the text.
setMode(m) ==
    /\ route = "editor"
    /\ mode # m
    /\ mode' = m
    /\ IF m = "edit"
       THEN cursor' \in {0, Len(content)} /\ UNCHANGED imageTimers
       ELSE imageTimers' = <<>> /\ UNCHANGED cursor
    /\ lastEvent' = Event("setMode", "", 0)
    /\ UNCHANGED <<outsideForm, events, saveVars, content, uploading,
                   uploadQueue, closureContent, uploadedImages>>

\* The selections of files not uploaded yet, one file or two in either order.
Selections ==
    {<<f>> : f \in Files \ uploadedImages}
        \cup {pair \in (Files \ uploadedImages) \X (Files \ uploadedImages) :
                  pair[1] # pair[2]}

InitUpload ==
    /\ EditorInit
    /\ FormStart("new")
    /\ OutsideFormInit

NextUpload ==
    \/ \E files \in Selections : handleFileSelect(files)
    \/ UploadResolved
    \/ UploadRejected
    \/ \E ch \in UploadChars : typeContent(ch)
    \/ \E pos \in 0..Len(content) : setCursor(pos)
    \/ ImageTimerFires
    \/ \E m \in {"edit", "preview"} : setMode(m)

SpecUpload == InitUpload /\ [][NextUpload]_vars

\* ==================================================== the search cache
Users == {"A", "B"}
SearchQueries == {<<" ">>, <<"h">>}

\* What a fetch the call issued leaves in the cache.
Data(call) == [owner |-> call.user, at |-> call.at, epoch |-> call.epoch]

\* History: the call took data from the cache.
Take(call, what, data) ==
    [kind |-> call.kind, user |-> call.user, what |-> what, data |-> data,
     at |-> now]

\* cachedBooks && cacheUserId === userId && now - cacheTimestamp < CACHE_TTL
BooksCacheHit(userId) ==
    /\ cachedBooks # NoData
    /\ cacheUserId = userId
    /\ now - cacheTimestamp < CACHE_TTL

\* cachedNotesMap && cacheUserId === userId && now - cacheTimestamp < CACHE_TTL,
\* with the cacheUserId and cacheTimestamp in force when it is evaluated.
NotesCacheHit(userId, user, timestamp) ==
    /\ cachedNotesMap # NoData
    /\ user = userId
    /\ now - timestamp < CACHE_TTL

\* A call that holds its books goes on: without notes it is done; with notes
\* fetchAllNotesWithCache returns the cached map or issues the fetches.
NotesPhase(call, others, user, timestamp, tookBooks) ==
    IF ~call.notes
    THEN calls' = others /\ taken' = tookBooks
    ELSE IF NotesCacheHit(call.user, user, timestamp)
         THEN /\ calls' = others
              /\ taken' = tookBooks \cup {Take(call, "notes", cachedNotesMap)}
         ELSE /\ calls' = others \cup {[call EXCEPT !.pc = "notes", !.at = now,
                                                     !.epoch = clears]}
              /\ taken' = tookBooks

\* searchAll and preloadSearchData up to their first await of the store.
StartCall(kind, userId, searchNotes) ==
    /\ events < MaxCalls
    /\ events' = events + 1
    /\ LET call == [id |-> events, kind |-> kind, user |-> userId,
                    notes |-> searchNotes, pc |-> "books", at |-> now,
                    epoch |-> clears]
       IN  IF BooksCacheHit(userId)
           THEN NotesPhase(call, calls, cacheUserId, cacheTimestamp,
                           {Take(call, "books", cachedBooks)})
           ELSE calls' = calls \cup {call} /\ taken' = {}
    /\ lastEvent' = Event(kind, userId, 0)
    /\ UNCHANGED <<outsideCache, cachedBooks, cachedNotesMap, cacheUserId,
                   cacheTimestamp, now, clears>>

\* searchAll(userId, searchQuery, options): an empty query returns at once.
searchAll(userId, queryText, searchNotes) ==
    IF TrimIsEmpty(queryText)
    THEN /\ events < MaxCalls
         /\ events' = events + 1
         /\ taken' = {}
         /\ lastEvent' = Event("searchEmpty", userId, 0)
         /\ UNCHANGED <<outsideCache, cachedBooks, cachedNotesMap, cacheUserId,
                        cacheTimestamp, now, calls, clears>>
    ELSE StartCall("search", userId, searchNotes)

\* preloadSearchData(userId)
preloadSearchData(userId) == StartCall("preload", userId, TRUE)

\* getDocs of the books resolves in fetchBooksWithCache: the cache is written
\* with the Date.now() taken before the await, and the caller goes on.
BooksFetched(call) ==
    /\ call.pc = "books"
    /\ cachedBooks' = Data(call)
    /\ cacheUserId' = call.user
    /\ cacheTimestamp' = call.at
    /\ NotesPhase(call, calls \ {call}, call.user, call.at, {})
    /\ lastEvent' = Event("booksFetched", call.user, 0)
    /\ UNCHANGED <<outsideCache, events, cachedNotesMap, now, clears>>

\* Promise.all of the notes resolves in fetchAllNotesWithCache.
NotesFetched(call) ==
    /\ call.pc = "notes"
    /\ cachedNotesMap' = Data(call)
    /\ calls' = calls \ {call}
    /\ taken' = {}
    /\ lastEvent' = Event("notesFetched", call.user, 0)
    /\ UNCHANGED <<outsideCache, events, cachedBooks, cacheUserId,
                   cacheTimestamp, now, clears>>

\* A getDocs rejects: the call ends with the error, the cache is not written.
FetchRejected(call) ==
    /\ calls' = calls \ {call}
    /\ taken' = {}
    /\ lastEvent' = Event("fetchRejected", call.user, 0)
    /\ UNCHANGED <<outsideCache, events, cachedBooks, cachedNotesMap,
                   cacheUserId, cacheTimestamp, now, clears>>

clearSearchCache ==
    /\ clears < MaxClears
    /\ clears' = clears + 1
    /\ cachedBooks' = NoData
    /\ cachedNotesMap' = NoData
    /\ cacheUserId' = "null"
    /\ cacheTimestamp' = 0
    /\ taken' = {}
    /\ lastEvent' = Event("clearSearchCache", "", 0)
    /\ UNCHANGED <<outsideCache, events, now, calls>>

\* Time passes.
ClockTick ==
    /\ now < StartTime + MaxTicks * Tick
    /\ now' = now + Tick
    /\ taken' = {}
    /\ lastEvent' = Event("tick", "", 0)
    /\ UNCHANGED <<outsideCache, events, cachedBooks, cachedNotesMap,
                   cacheUserId, cacheTimestamp, calls, clears>>

NextCache ==
    \/ \E userId \in Users, q \in SearchQueries, searchNotes \in BOOLEAN :
          searchAll(userId, q, searchNotes)
    \/ \E userId \in Users : preloadSearchData(userId)
    \/ \E call \in calls : BooksFetched(call)
    \/ \E call \in calls : NotesFetched(call)
    \/ \E call \in calls : FetchRejected(call)
    \/ clearSearchCache
    \/ ClockTick

SpecCache == Init /\ [][NextCache]_vars

\* ======================================================= the home page
\* What the user types into the search box.
HomeQueries == {<<>>, <<" ">>, <<"h">>, <<"x">>}

\* The list searchAll resolves with for a query: one per query.
ResultsOf(q) == <<[matched |-> q]>>

\* SearchBox: onChange of the input, setQuery(e.target.value)
setQuery(q) ==
    /\ boxQuery # q
    /\ boxQuery' = q
    /\ lastEvent' = Event("setQuery", "", 0)
    /\ UNCHANGED <<outsideHome, events, searchQuery, searchResults, searching,
                   searched, searches, lastSubmitted>>

\* HomeContent.handleSearch(q) with performSearchWithState up to its await.
\* The query goes back to the box as initialQuery.
handleSearch(q) ==
    /\ events < MaxSearches
    /\ events' = events + 1
    /\ searchQuery' = q
    /\ boxQuery' = q
    /\ IF TrimIsEmpty(q)
       THEN /\ searched' = FALSE
            /\ searchResults' = <<>>
            /\ lastSubmitted' = [kind |-> "clear", id |-> events, query |-> q,
                                 rejected |-> FALSE]
            /\ UNCHANGED <<searching, searches>>
       ELSE /\ searching' = TRUE
            /\ searched' = TRUE
            /\ searches' = searches \cup {[id |-> events, query |-> q]}
            /\ lastSubmitted' = [kind |-> "search", id |-> events, query |-> q,
                                 rejected |-> FALSE]
            /\ UNCHANGED searchResults
    /\ UNCHANGED outsideHome

\* SearchBox: Enter in the input, whether a search is running or not.
PressEnter ==
    /\ handleSearch(boxQuery)
    /\ lastEvent' = Event("enter", "", 0)

\* SearchBox: the search button, disabled={searching || !query.trim()}
ClickSearch ==
    /\ ~searching
    /\ ~TrimIsEmpty(boxQuery)
    /\ handleSearch(boxQuery)
    /\ lastEvent' = Event("clickSearch", "", 0)

\* SearchBox.handleClear: setQuery(''), onSearch('', options)
handleClear ==
    /\ handleSearch(<<>>)
    /\ lastEvent' = Event("clear", "", 0)

\* HomeContent.handleLogoClick, also the button that clears the results.
handleLogoClick ==
    /\ events < MaxSearches
    /\ events' = events + 1
    /\ searched' = FALSE
    /\ searchQuery' = <<>>
    /\ boxQuery' = IF searchQuery # <<>> THEN <<>> ELSE boxQuery
    /\ searchResults' = <<>>
    /\ lastSubmitted' = [kind |-> "clear", id |-> events, query |-> <<>>,
                         rejected |-> FALSE]
    /\ lastEvent' = Event("logoClick", "", 0)
    /\ UNCHANGED <<outsideHome, searching, searches>>

\* searchAll resolves for a pending search: setSearchResults, then finally.
SearchResolved(search) ==
    /\ searches' = searches \ {search}
    /\ searchResults' = ResultsOf(search.query)
    /\ searching' = FALSE
    /\ lastEvent' = Event("searchResolved", "", 0)
    /\ UNCHANGED <<outsideHome, events, boxQuery, searchQuery, searched,
                   lastSubmitted>>

\* searchAll rejects: catch logs, then finally.
SearchRejected(search) ==
    /\ searches' = searches \ {search}
    /\ searching' = FALSE
    /\ lastSubmitted' =
           IF search.id = lastSubmitted.id
           THEN [lastSubmitted EXCEPT !.rejected = TRUE]
           ELSE lastSubmitted
    /\ lastEvent' = Event("searchRejected", "", 0)
    /\ UNCHANGED <<outsideHome, events, boxQuery, searchQuery, searchResults,
                   searched>>

\* searched ? <SearchResults results={searchResults} /> : the book lists
Displayed == IF searched THEN searchResults ELSE <<>>

NextHome ==
    \/ \E q \in HomeQueries : setQuery(q)
    \/ PressEnter
    \/ ClickSearch
    \/ handleClear
    \/ handleLogoClick
    \/ \E search \in searches : SearchResolved(search)
    \/ \E search \in searches : SearchRejected(search)

SpecHome == Init /\ [][NextHome]_vars

\* ===================================================== the notes store
\* The comparator of getNotes: displayOrder ascending, then createdAt.
SortsBefore(a, b) ==
    IF a.displayOrder # b.displayOrder
    THEN a.displayOrder < b.displayOrder
    ELSE a.createdAt < b.createdAt

\* getNotes over a set of documents: their ids in the order of the sort.
SortedIds(docs) ==
    [i \in 1..Cardinality(docs) |->
        (CHOOSE d \in docs :
            Cardinality({e \in docs : SortsBefore(e, d)}) = i - 1).id]

getNotes == SortedIds(noteDocs)

\* addNote: displayOrder is the number of documents the collection holds,
\* createdAt is the server's time.
addNote ==
    /\ created < MaxNotes
    /\ created' = created + 1
    /\ noteDocs' = noteDocs \cup {[id |-> created + 1,
                                    displayOrder |-> Cardinality(noteDocs),
                                    createdAt |-> created + 1]}
    /\ lastEvent' = Event("addNote", "", 0)
    /\ UNCHANGED <<outsideStore, events>>

\* deleteNote(noteId)
deleteNote(noteId) ==
    /\ noteDocs' = {d \in noteDocs : d.id # noteId}
    /\ lastEvent' = Event("deleteNote", "", 0)
    /\ UNCHANGED <<outsideStore, events, created>>

\* updateNotesOrder(noteOrders): each document named takes its displayOrder.
updateNotesOrder(noteOrders) ==
    /\ noteDocs' =
           {IF \E o \in noteOrders : o.noteId = d.id
            THEN [d EXCEPT !.displayOrder =
                     (CHOOSE o \in noteOrders : o.noteId = d.id).displayOrder]
            ELSE d : d \in noteDocs}
    /\ lastEvent' = Event("updateNotesOrder", "", 0)
    /\ UNCHANGED <<outsideStore, events, created>>

\* handleMoveNote: the note at index k of the list changes places with the
\* next one, and every note's displayOrder becomes its index.
MovedOrders(k) ==
    LET notes == getNotes
        newNotes == [i \in 1..Len(notes) |->
                        IF i = k + 1 THEN notes[k + 2]
                        ELSE IF i = k + 2 THEN notes[k + 1]
                        ELSE notes[i]]
    IN  {[noteId |-> newNotes[i], displayOrder |-> i - 1] : i \in 1..Len(notes)}

NextStore ==
    \/ addNote
    \/ \E d \in noteDocs : deleteNote(d.id)
    \/ \E k \in 0..(Cardinality(noteDocs) - 2) : updateNotesOrder(MovedOrders(k))

SpecStore == Init /\ [][NextStore]_vars

\* ============================================== searchAll, its results
\* const statusLabels, with || '' for any other status
statusLabels(readingStatus) ==
    CASE readingStatus = "unread" -> <<"u672a", "u8aad">>
      [] readingStatus = "reading" -> <<"u8aad", "u66f8", "u4e2d">>
      [] readingStatus = "completed" -> <<"u8aad", "u4e86">>
      [] readingStatus = "sold" -> <<"u58f2", "u5374", "u6e08", "u307f">>
      [] OTHER -> <<>>

\* The books a library is made of; an empty value is a field left out.
Books ==
    { [title |-> <<"H", "x">>, subtitle |-> <<>>, author |-> <<"h">>,
       publisher |-> <<"x">>, description |-> <<>>, isbn13 |-> <<"9">>,
       readingStatus |-> "reading",
       notes |-> << [title |-> <<"h">>, content |-> <<"x">>],
                    [title |-> <<>>, content |-> <<"H">>] >>],
      [title |-> <<"x">>, subtitle |-> <<"h">>, author |-> <<>>,
       publisher |-> <<"h">>, description |-> <<"H", "9">>, isbn13 |-> <<"9">>,
       readingStatus |-> "unread",
       notes |-> << >>],
      [title |-> <<"y">>, subtitle |-> <<>>, author |-> <<"y">>,
       publisher |-> <<>>, description |-> <<"h">>, isbn13 |-> <<>>,
       readingStatus |-> "sold",
       notes |-> << [title |-> <<"h">>, content |-> <<"h", "x">>] >>] }

\* The queries and the options of a call.
ShapeQueries == {<<>>, <<" ">>, <<"h">>, <<"H">>, <<"x">>, <<"9">>, <<"u8aad">>}
SearchOptions ==
    [searchTitle : BOOLEAN, searchAuthor : BOOLEAN, searchPublisher : BOOLEAN,
     searchDescription : BOOLEAN, searchNotes : BOOLEAN, searchIsbn : BOOLEAN,
     searchStatus : BOOLEAN]

\* const bookFields, the field names in English
bookFields(book, options) ==
    << [field |-> "title", value |-> book.title,
        enabled |-> options.searchTitle],
       [field |-> "subtitle", value |-> book.subtitle,
        enabled |-> options.searchTitle],
       [field |-> "author", value |-> book.author,
        enabled |-> options.searchAuthor],
       [field |-> "publisher", value |-> book.publisher,
        enabled |-> options.searchPublisher],
       [field |-> "description", value |-> book.description,
        enabled |-> options.searchDescription],
       [field |-> "ISBN", value |-> book.isbn13,
        enabled |-> options.searchIsbn],
       [field |-> "status", value |-> statusLabels(book.readingStatus),
        enabled |-> options.searchStatus] >>

\* const noteFields; a note's fields carry no option
noteFields(note) ==
    << [field |-> "noteTitle", value |-> note.title, enabled |-> TRUE],
       [field |-> "noteContent", value |-> note.content, enabled |-> TRUE] >>

\* enabled && value && value.toLowerCase().includes(lowerQuery)
FieldMatches(f, lowerQuery) ==
    /\ f.enabled
    /\ f.value # <<>>
    /\ JsIncludes(ToLowerCase(f.value), lowerQuery)

\* Mutant: the loop over the fields has no break and the last match counts.
MatchedFieldLast(fields, lowerQuery) ==
    LET hits == {i \in 1..Len(fields) : FieldMatches(fields[i], lowerQuery)}
    IN  IF hits = {} THEN 0 ELSE CHOOSE i \in hits : \A j \in hits : j <= i

\* The loop over the fields with its break: the index of the first field that
\* matches, 0 if none does.
MatchedField(fields, lowerQuery) ==
    LET hits == {i \in 1..Len(fields) : FieldMatches(fields[i], lowerQuery)}
    IN  IF hits = {} THEN 0 ELSE CHOOSE i \in hits : \A j \in hits : i <= j

\* The loop over the books: one result for each book with a match.
BookResults(books, options, lowerQuery) ==
    LET hit(b) == MatchedField(bookFields(books[b], options), lowerQuery)
        found == SelectSeq([b \in 1..Len(books) |-> b], LAMBDA b : hit(b) # 0)
    IN  [k \in 1..Len(found) |->
            [type |-> "book", book |-> found[k], note |-> 0,
             matchedField |-> bookFields(books[found[k]], options)[hit(found[k])].field]]

\* The loops over the books and the notes of each, as one list of
\* <<book, note>> in the order the loops visit them.
NotesVisited(books) ==
    LET pairs == {p \in (1..Len(books)) \X (1..2) : p[2] <= Len(books[p[1]].notes)}
        before(p, q) == p[1] < q[1] \/ (p[1] = q[1] /\ p[2] < q[2])
    IN  [i \in 1..Cardinality(pairs) |->
            CHOOSE p \in pairs : Cardinality({q \in pairs : before(q, p)}) = i - 1]

\* The loop over the notes: one result for each note with a match.
NoteResults(books, lowerQuery) ==
    LET visited == NotesVisited(books)
        hit(p) == MatchedField(noteFields(books[p[1]].notes[p[2]]), lowerQuery)
        found == SelectSeq(visited, LAMBDA p : hit(p) # 0)
    IN  [k \in 1..Len(found) |->
            [type |-> "note", book |-> found[k][1], note |-> found[k][2],
             matchedField |->
                 noteFields(books[found[k][1]].notes[found[k][2]])[hit(found[k])].field]]

\* searchAll over the books the store holds: what it returns, and the fetch
\* functions it calls on the way.
searchAllResults(queryText, options, books) ==
    IF TrimIsEmpty(queryText)
    THEN [results |-> <<>>, fetches |-> <<>>]
    ELSE LET lowerQuery == ToLowerCase(queryText)
         IN  IF options.searchNotes
             THEN [results |-> BookResults(books, options, lowerQuery)
                                  \o NoteResults(books, lowerQuery),
                   fetches |-> <<"fetchBooksWithCache",
                                 "fetchAllNotesWithCache">>]
             ELSE [results |-> BookResults(books, options, lowerQuery),
                   fetches |-> <<"fetchBooksWithCache">>]

\* The searchAll call with the arguments drawn, run to its end.
Search ==
    /\ ~lastSearch.called
    /\ LET out == searchAllResults(lastSearch.query, lastSearch.options, library)
       IN  lastSearch' = [lastSearch EXCEPT !.called = TRUE,
                                            !.results = out.results,
                                            !.fetches = out.fetches]
    /\ lastEvent' = Event("searchAll", "", 0)
    /\ UNCHANGED <<outsideShape, events, library>>

\* The libraries of at most MaxBooks books.
Libraries == UNION {[1..n -> Books] : n \in 0..MaxBooks}

InitShape ==
    /\ EditorInit
    /\ OutsideShapeInit
    /\ library \in Libraries
    /\ \E queryText \in ShapeQueries, options \in SearchOptions :
          lastSearch = Arguments(queryText, options)

NextShape == Search

SpecShape == InitShape /\ [][NextShape]_vars

\* ================================================================ claims
\* The list rendered for a filter, as the set of catalog positions it holds.
Listed(filter) == {FilteredCommands(filter)[k] : k \in 1..Len(FilteredCommands(filter))}

TextEdits == {"type", "backspace", "delete"}
Commits == {"enter", "tab", "click"}
Blank == {" ", "\n"}

\* C1: while the menu is open the buffer character at the trigger offset is
\* "/", the filter text is the buffer from the trigger offset + 1 up to the
\* caret, and it holds no space and no newline.
C1_OpenMenuTracksBuffer ==
    showMenu =>
        /\ slashPosition # Null
        /\ CharAt(value, slashPosition) = "/"
        /\ menuFilter = SubSeq(value, slashPosition + 2, selectionStart)
        /\ \A k \in 1..Len(menuFilter) : menuFilter[k] \notin Blank

\* C2: a "/" typed while the menu is closed, landing at offset i with i = 0 or
\* a space or newline at i - 1, opens the menu with the trigger offset i.
C2_TriggerOpensMenu ==
    [][(/\ lastEvent'.kind = "type"
        /\ lastEvent'.ch = "/"
        /\ ~showMenu
        /\ \/ selectionStart = 0
           \/ CharAt(value, selectionStart - 1) \in Blank)
       => (/\ showMenu'
           /\ slashPosition' = selectionStart
           /\ CharAt(value', selectionStart) = "/")]_vars

\* A "/" typed after a space, not at the start, found the menu closed and
\* opened it.
C2_Witness ==
    /\ lastEvent.kind = "type"
    /\ lastEvent.ch = "/"
    /\ ~lastEvent.wasOpen
    /\ showMenu
    /\ slashPosition > 0
    /\ slashPosition = lastEvent.caret
    /\ CharAt(value, slashPosition - 1) = " "

\* C3: a "/" typed while the menu is closed, not at offset 0 and right after a
\* character that is neither a space nor a newline, leaves the menu closed,
\* and the buffer holds the "/" where it was typed.
C3_NoTriggerMidWord ==
    [][(/\ lastEvent'.kind = "type"
        /\ lastEvent'.ch = "/"
        /\ ~showMenu
        /\ selectionStart > 0
        /\ CharAt(value, selectionStart - 1) \notin Blank)
       => (/\ ~showMenu'
           /\ Len(value') = Len(value) + 1
           /\ CharAt(value', selectionStart) = "/"
           /\ \A i \in 0..(Len(value) - 1) :
                 CharAt(value', IF i < selectionStart THEN i ELSE i + 1)
                     = CharAt(value, i))]_vars

\* A "/" typed right after the letter h found the menu closed and left it so.
C3_Witness ==
    /\ lastEvent.kind = "type"
    /\ lastEvent.ch = "/"
    /\ ~lastEvent.wasOpen
    /\ ~showMenu
    /\ lastEvent.caret > 0
    /\ CharAt(value, lastEvent.caret) = "/"
    /\ CharAt(value, lastEvent.caret - 1) = "h"

\* C4: a commit of command C with trigger offset t, buffer B and caret c makes
\* the buffer B[0:t] + C.insert + B[c:]; the deferred callback of that commit,
\* running next, puts the caret at t + len(C.insert) + C.cursorOffset, clamped
\* to [0, len(new buffer)].
C4_SpliceCorrect ==
    [][/\ (lastEvent'.kind \in Commits /\ lastEvent'.cmd # 0)
          => value' = SubSeq(value, 1, slashPosition)
                        \o slashCommands[lastEvent'.cmd].insert
                        \o SubSeq(value, selectionStart + 1, Len(value))
       /\ (/\ lastEvent'.kind = "timer"
           /\ lastEvent.kind \in Commits
           /\ lastEvent.cmd # 0
           /\ Len(timers) = 1)
          => selectionStart' =
                 Clamp(lastEvent.slash + Len(slashCommands[lastEvent.cmd].insert)
                           + slashCommands[lastEvent.cmd].cursorOffset,
                       0, Len(value))]_vars

\* The code-block command was committed over a "/" typed after a space, and its
\* callback has put the caret between the two fences.
C4_Witness ==
    /\ lastEvent.kind = "timer"
    /\ lastEvent.cmd = 9
    /\ timers = <<>>
    /\ value = <<" ", "u0060", "u0060", "u0060", "\n", "\n", "u0060", "u0060", "u0060">>
    /\ selectionStart = 5

\* C5: Escape, or a press of the mouse outside the popup, while the menu is
\* open closes the menu and leaves the buffer as it was.
C5_CancelKeepsBuffer ==
    [][(lastEvent'.kind \in {"escape", "clickoutside"} /\ showMenu)
       => (~showMenu' /\ value' = value)]_vars

\* The mouse was pressed outside the popup of an open menu, which is closed
\* now, over a buffer that still holds the "/" and the filter typed.
C5_Witness ==
    /\ lastEvent.kind = "clickoutside"
    /\ lastEvent.wasOpen
    /\ ~showMenu
    /\ value = <<"/", "h">>

\* C6: after an insertion or a deletion processed while the menu is open, a
\* menu that is still open has the caret behind its trigger offset.
C6_ClosesAtOrBeforeTrigger ==
    [][(lastEvent'.kind \in TextEdits /\ showMenu /\ showMenu')
       => selectionStart' > slashPosition']_vars

\* C7: a space or a newline typed while the menu is open closes the menu.
C7_BlankClosesMenu ==
    [][(lastEvent'.kind = "type" /\ lastEvent'.ch \in Blank /\ showMenu)
       => ~showMenu']_vars

\* C8: one more character that is no space and no newline, typed while the
\* menu is open, leaves a list that holds no command the list before did not
\* (stated for the characters other than "/", which may open a new menu).
C8_FilterNarrows ==
    [][(/\ lastEvent'.kind = "type"
        /\ lastEvent'.ch \notin Blank \cup {"/"}
        /\ showMenu
        /\ showMenu')
       => Listed(menuFilter') \subseteq Listed(menuFilter)]_vars

\* C9: with a list of n > 0 entries, ArrowDown moves the selection from n - 1
\* to 0 and from any other index to the next, ArrowUp from 0 to n - 1 and from
\* any other index to the one before; buffer, trigger offset, filter text and
\* open flag stay.
C9_WraparoundNavigation ==
    [][LET n == Len(FilteredCommands(menuFilter))
       IN  /\ (lastEvent'.kind = "arrowdown" /\ showMenu /\ n > 0)
              => /\ selectedIndex' = IF selectedIndex = n - 1 THEN 0
                                     ELSE selectedIndex + 1
                 /\ UNCHANGED <<value, slashPosition, menuFilter, showMenu>>
           /\ (lastEvent'.kind = "arrowup" /\ showMenu /\ n > 0)
              => /\ selectedIndex' = IF selectedIndex = 0 THEN n - 1
                                     ELSE selectedIndex - 1
                 /\ UNCHANGED <<value, slashPosition, menuFilter, showMenu>>]_vars

\* ArrowDown was pressed on the last of the fourteen entries and the first is
\* selected.
C9_Witness ==
    /\ lastEvent.kind = "arrowdown"
    /\ showMenu
    /\ Len(filteredCommands) = NumCommands
    /\ selectedIndex = 0

\* C10: the list computed for a query holds exactly the commands whose id,
\* label or description contains the query, letter case apart, in catalog
\* order and once each; for the empty query it is the whole catalog.
SameLetter(a, b) ==
    \/ a = b
    \/ \E pair \in {<<"h", "H">>, <<"u", "U">>, <<"r", "R">>, <<"l", "L">>,
                    <<"t", "T">>, <<"o", "O">>, <<"d", "D">>} :
          {a, b} = {pair[1], pair[2]}

ContainsIgnoringCase(field, q) ==
    \E off \in 0..(Len(field) - Len(q)) :
        \A j \in 1..Len(q) : SameLetter(field[off + j], q[j])

Expected(i, q) ==
    \/ ContainsIgnoringCase(slashCommands[i].id, q)
    \/ ContainsIgnoringCase(slashCommands[i].label, q)
    \/ ContainsIgnoringCase(slashCommands[i].description, q)

C10_FilterIsSubstringMatch ==
    /\ \A k \in 1..Len(shown) : shown[k] \in 1..NumCommands
    /\ \A i \in 1..NumCommands :
          Expected(i, query) <=> \E k \in 1..Len(shown) : shown[k] = i
    /\ \A k \in 1..(Len(shown) - 1) : shown[k] < shown[k + 1]
    /\ query = <<>> => shown = CatalogPositions

\* The query "uR" lists the link command alone, found by its description
\* "URL..." whatever the case of the letters typed.
C10_Witness ==
    /\ query = <<"u", "R">>
    /\ shown = <<12>>

\* C11: a step that takes the menu from closed to open leaves an empty filter
\* text and the selected index 0, whatever the selected index was before.
C11_OpenStartsFresh ==
    [][(~showMenu /\ showMenu') => (menuFilter' = <<>> /\ selectedIndex' = 0)]_vars

\* A "/" opened a menu that had been closed with another entry selected.
C11_Witness ==
    /\ lastEvent.kind = "type"
    /\ lastEvent.ch = "/"
    /\ ~lastEvent.wasOpen
    /\ lastEvent.index # 0
    /\ showMenu
    /\ menuFilter = <<>>
    /\ selectedIndex = 0

\* The buffer a commit of the catalog entry at position c makes of the current
\* buffer, trigger offset and caret.
Spliced(c) ==
    SubSeq(value, 1, slashPosition) \o slashCommands[c].insert
        \o SubSeq(value, selectionStart + 1, Len(value))

\* The step closes the menu and replaces the buffer by the splice of entry k
\* (0-based) of the list shown.
CommitsEntry(k) ==
    /\ k \in 0..(Len(FilteredCommands(menuFilter)) - 1)
    /\ value' = Spliced(FilteredCommands(menuFilter)[k + 1])
    /\ ~showMenu'
    /\ slashPosition' = Null
    /\ menuFilter' = <<>>

\* C12: with a non-empty list, Enter and Tab splice the entry at the selected
\* index and a click splices the entry clicked, and each leaves the menu
\* closed, the trigger offset cleared and the filter text empty.
C12_CommitClosesMenu ==
    [][/\ (/\ lastEvent'.kind \in {"enter", "tab"}
           /\ showMenu
           /\ Len(FilteredCommands(menuFilter)) > 0)
          => CommitsEntry(selectedIndex)
       /\ (lastEvent'.kind = "click" /\ showMenu)
          => CommitsEntry(lastEvent'.index)]_vars

\* Tab committed the entry the selection had been moved to, below the first,
\* and the menu is closed.
C12_Witness ==
    /\ lastEvent.kind = "tab"
    /\ lastEvent.wasOpen
    /\ lastEvent.index > 0
    /\ lastEvent.cmd # 0
    /\ ~showMenu
    /\ slashPosition = Null
    /\ menuFilter = <<>>

\* No command matches the filter text of the open menu.
NothingListed == showMenu /\ Len(FilteredCommands(menuFilter)) = 0

\* The buffer between the trigger and the caret after the step.
TypedAfterTrigger == SubSeq(value', slashPosition + 2, selectionStart')

\* C13: a filter text that matches no command leaves the menu open; with
\* nothing listed Enter and Tab leave buffer, caret, trigger offset, filter
\* text and open flag as they are, Escape closes the menu, and a character
\* typed behind the trigger becomes part of the filter text.
C13_EmptyListIsNormal ==
    [][/\ (lastEvent'.kind \in {"enter", "tab"} /\ NothingListed)
          => UNCHANGED <<value, selectionStart, slashPosition, menuFilter,
                         showMenu>>
       /\ (lastEvent'.kind = "escape" /\ NothingListed)
          => (~showMenu' /\ value' = value)
       /\ (/\ lastEvent'.kind = "type"
           /\ lastEvent'.ch \notin Blank \cup {"/"}
           /\ showMenu
           /\ selectionStart > slashPosition
           /\ \A k \in 1..Len(TypedAfterTrigger) : TypedAfterTrigger[k] \notin Blank)
          => (showMenu' /\ menuFilter' = TypedAfterTrigger)]_vars

\* Enter was pressed on an open menu that lists nothing, and the menu is
\* still open on the same filter text.
C13_Witness ==
    /\ lastEvent.kind = "enter"
    /\ lastEvent.wasOpen
    /\ lastEvent.cmd = 0
    /\ showMenu
    /\ menuFilter = <<"h", "h">>
    /\ Len(filteredCommands) = 0
    /\ value = <<"/", "h", "h">>

C15_CommitIsAtomic ==
    [][/\ (lastEvent'.kind \in Commits /\ lastEvent'.cmd # 0)
          => /\ value' = Spliced(lastEvent'.cmd)
             /\ Len(timers') = Len(timers) + 1
       /\ (timers # <<>>) => value' = value]_vars

\* The keys of the scenario typed so far: k characters of "/bul".
Keys == <<"/", "b", "u", "l">>

\* The editor has taken the first k keys of the scenario (k >= 1).
AfterKeys(k) ==
    /\ value = Hello \o SubSeq(Keys, 1, k)
    /\ selectionStart = Len(Hello) + k
    /\ showMenu
    /\ slashPosition = Len(Hello)
    /\ menuFilter = SubSeq(Keys, 2, k)

\* C16: from the buffer "Hello\n" with the caret at 6 and the menu closed,
\* "/" opens the menu with trigger offset 6 and an empty filter; b, u, l make
\* the filter text "bul", which lists the bullet command alone; Enter makes
\* the buffer "Hello\n- " with the caret at 8 and the menu closed, and the
\* deferred caret placement leaves the caret at 8.
C16_ScenarioA ==
    [][/\ (/\ value = Hello /\ selectionStart = 6 /\ ~showMenu
           /\ lastEvent'.kind = "type" /\ lastEvent'.ch = "/")
          => AfterKeys(1)'
       /\ \A k \in 1..3 :
             (AfterKeys(k) /\ lastEvent'.kind = "type"
                  /\ lastEvent'.ch = Keys[k + 1])
             => AfterKeys(k + 1)'
       /\ AfterKeys(4)
          => /\ Len(FilteredCommands(menuFilter)) = 1
             /\ slashCommands[FilteredCommands(menuFilter)[1]].id
                   = <<"b", "u", "l", "l", "e", "t">>
       /\ (AfterKeys(4) /\ lastEvent'.kind = "enter")
          => /\ value' = Hello \o <<"-", " ">>
             /\ selectionStart' = 8
             /\ ~showMenu'
       /\ (/\ lastEvent.kind = "enter" /\ lastEvent.slash = 6
           /\ lastEvent.caret = 10 /\ lastEvent.cmd = 4
           /\ Len(timers) = 1 /\ lastEvent'.kind = "timer")
          => /\ value' = Hello \o <<"-", " ">>
             /\ selectionStart' = 8
             /\ ~showMenu']_vars

\* Enter found the caret behind "/bul" and committed the bullet command: the
\* buffer is "Hello\n- ", the caret is at 8 and the menu is closed.
C16_Witness ==
    /\ lastEvent.kind = "enter"
    /\ lastEvent.slash = 6
    /\ lastEvent.caret = 10
    /\ lastEvent.cmd = 4
    /\ value = Hello \o <<"-", " ">>
    /\ selectionStart = 8
    /\ ~showMenu

\* The part of the inserted text of the catalog entry at position c that the
\* caret is to stand behind: the opening fence and its newline for code, the
\* first pair of stars for bold, the first star for italic, the opening
\* bracket for link, and all of the inserted text for every other command.
BeforeCaret(c) ==
    LET id == slashCommands[c].id
    IN  CASE id = <<"c", "o", "d", "e">> -> <<"u0060", "u0060", "u0060", "\n">>
          [] id = <<"b", "o", "l", "d">> -> <<"*", "*">>
          [] id = <<"i", "t", "a", "l", "i", "c">> -> <<"*">>
          [] id = <<"l", "i", "n", "k">> -> <<"[">>
          [] OTHER -> slashCommands[c].insert

\* The rest of the inserted text, which the caret is to stand before.
AfterCaret(c) ==
    LET id == slashCommands[c].id
    IN  CASE id = <<"c", "o", "d", "e">> -> <<"\n", "u0060", "u0060", "u0060">>
          [] id = <<"b", "o", "l", "d">> -> <<"*", "*">>
          [] id = <<"i", "t", "a", "l", "i", "c">> -> <<"*">>
          [] id = <<"l", "i", "n", "k">> -> <<"]", "(", "U", "R", "L", ")">>
          [] OTHER -> <<>>

\* C17: for every catalog command the caret offset len(insert) + cursorOffset
\* lies within the inserted text; once a commit's deferred callback has run,
\* the caret stands on the empty line between the fences for code, between
\* the pairs of stars for bold, between the stars for italic, inside the
\* brackets for link, and right behind the inserted text for the others.
C17_CatalogCaretPlacement ==
    /\ \A c \in 1..NumCommands :
          /\ 0 <= Len(slashCommands[c].insert) + slashCommands[c].cursorOffset
          /\ Len(slashCommands[c].insert) + slashCommands[c].cursorOffset
                <= Len(slashCommands[c].insert)
    /\ [][(/\ lastEvent'.kind = "timer"
           /\ lastEvent.kind \in Commits
           /\ lastEvent.cmd # 0
           /\ Len(timers) = 1)
          => LET c == lastEvent.cmd
                 t == lastEvent.slash
             IN  /\ SubSeq(value', t + 1, selectionStart') = BeforeCaret(c)
                 /\ SubSeq(value', selectionStart' + 1,
                           t + Len(slashCommands[c].insert)) = AfterCaret(c)]_vars

\* The link command was committed over a "/" in an empty buffer and its
\* callback has put the caret inside the brackets.
C17_Witness ==
    /\ lastEvent.kind = "timer"
    /\ lastEvent.cmd = 12
    /\ timers = <<>>
    /\ value = <<"[", "]", "(", "U", "R", "L", ")">>
    /\ selectionStart = 1

\* C18: from every state with the menu open, whatever the list and the
\* selected index, Tab leaves the buffer, the caret, the menu state and the
\* pending caret placements that Enter leaves, and Enter those that Tab leaves.
C18_TabIsEnter ==
    [][/\ (lastEvent'.kind = "tab" /\ showMenu) => EnterKey
       /\ (lastEvent'.kind = "enter" /\ showMenu) => TabKey]_vars

\* Tab was pressed on an open menu that lists nothing and, as Enter does,
\* left it open.
C18_Witness ==
    /\ lastEvent.kind = "tab"
    /\ lastEvent.wasOpen
    /\ lastEvent.cmd = 0
    /\ showMenu
    /\ Len(filteredCommands) = 0

\* The step types a "/" at the start of the buffer or behind a space or a
\* newline: the transition that opens the menu.
OpensMenu ==
    /\ lastEvent'.kind = "type"
    /\ lastEvent'.ch = "/"
    /\ \/ selectionStart = 0
       \/ CharAt(value, selectionStart - 1) \in Blank

C20_DefaultPositionWithoutMirror ==
    [][(~mirror /\ OpensMenu)
       => /\ value' = SubSeq(value, 1, selectionStart) \o <<"/">>
                        \o SubSeq(value, selectionStart + 1, Len(value))
          /\ showMenu'
          /\ slashPosition' = selectionStart
          /\ menuPosition' = [top |-> 0, left |-> 0]]_vars

\* Without the mirror a "/" typed behind a space opened the menu at the
\* default position.
C20_Witness ==
    /\ ~mirror
    /\ lastEvent.kind = "type"
    /\ lastEvent.ch = "/"
    /\ showMenu
    /\ value = <<" ", "/">>
    /\ slashPosition = 1
    /\ menuPosition = [top |-> 0, left |-> 0]

\* C26: whenever the menu is open and the list shown is not empty, the
\* selected index is the 0-based position of one of its entries, so Enter and
\* Tab find an entry; typing, deleting, ArrowUp and ArrowDown (on an empty
\* list too) and hover keep it so.
C26_SelectedIndexInRange ==
    (showMenu /\ Len(filteredCommands) > 0)
        => (0 <= selectedIndex /\ selectedIndex < Len(filteredCommands))

\* ArrowUp on an empty list had left the index at -1; the Backspace that
\* followed brought entries back, and the index is that of the first.
C26_Witness ==
    /\ lastEvent.kind = "backspace"
    /\ lastEvent.wasOpen
    /\ lastEvent.index = -1
    /\ showMenu
    /\ Len(filteredCommands) > 0
    /\ selectedIndex = 0

\* C27: a "/" typed at a trigger position while the menu is open leaves the
\* menu open, with the trigger offset at the new "/", an empty filter text and
\* the selected index 0.
C27_RetriggerStartsFresh ==
    [][(showMenu /\ OpensMenu)
       => /\ showMenu'
          /\ slashPosition' = selectionStart
          /\ menuFilter' = <<>>
          /\ selectedIndex' = 0]_vars

\* C21: when the call of a save rejects, the title, the content and the page
\* reference are what they were, the editor is still the page shown, and the
\* saving flag is false, so the save button takes a click again whenever the
\* content is not blank.
C21_FailedSaveKeepsSession ==
    [][lastEvent'.kind = "saveRejected"
       => /\ UNCHANGED <<title, content, pageRef>>
          /\ route' = "editor"
          /\ ~saving'
          /\ ~TrimIsEmpty(content') => SaveEnabled']_vars

\* A save of a form with all three fields filled was rejected; the fields
\* are as typed and nothing reached the store.
C21_Witness ==
    /\ lastEvent.kind = "saveRejected"
    /\ title = <<"t">>
    /\ content = <<"h", " ">>
    /\ pageRef = <<"p">>
    /\ route = "editor"
    /\ ~saving
    /\ savedNotes = <<>>

\* The number of typed characters the content holds.
TypedInContent ==
    Cardinality({k \in 1..Len(content) : content[k] \in UploadChars})

\* C22: when no upload is in flight, the content holds the image reference
\* of every file that was uploaded and every character that was typed,
\* whether typed before, between or during the uploads.
C22_NoEditLost ==
    ~uploading
        => /\ \A f \in uploadedImages : JsIncludes(content, ImageMarkdown(f))
           /\ TypedInContent = events

\* C23: whatever searchAll or preloadSearchData takes from the cache, books
\* or notes, was fetched from the store less than CACHE_TTL before it is
\* taken.
C23_CacheTakesAreFresh ==
    \A t \in taken : t.at - t.data.at < CACHE_TTL

\* C24: the books and the notes map a searchAll(userId) takes from the cache
\* were fetched for userId.
C24_CacheTakesAreOwn ==
    \A t \in taken : t.kind = "search" => t.data.owner = t.user

\* C25: once clearSearchCache has been called, the cache holds nothing of a
\* fetch that was started before the latest clear.
C25_ClearOutlastsFetches ==
    /\ cachedBooks # NoData => cachedBooks.epoch = clears
    /\ cachedNotesMap # NoData => cachedNotesMap.epoch = clears

\* C28: when no search is in flight, the list displayed is the result of the
\* query submitted last, provided its search did not fail, and no list is
\* displayed when the latest action was a clear.
C28_LatestSearchWins ==
    (searches = {} /\ ~lastSubmitted.rejected)
        => Displayed = (IF lastSubmitted.kind = "search"
                        THEN ResultsOf(lastSubmitted.query)
                        ELSE <<>>)

\* The 1-based place of the note id in the list getNotes returns for docs.
PlaceIn(docs, id) ==
    CHOOSE i \in 1..Cardinality(docs) : SortedIds(docs)[i] = id

\* C29: the note an addNote call created is the last element of the list
\* getNotes returns after the call, and of two addNote calls made one after
\* the other the first one's note comes before the second one's.
C29_AddNoteAppends ==
    [][lastEvent'.kind = "addNote"
       => /\ SortedIds(noteDocs')[Cardinality(noteDocs')] = created'
          /\ lastEvent.kind = "addNote"
                => PlaceIn(noteDocs', created) < PlaceIn(noteDocs', created')]_vars

\* The fields of a book in the order of the claim, the option that enables
\* each, and the value each is searched by.
FieldNames ==
    <<"title", "subtitle", "author", "publisher", "description", "ISBN",
      "status">>

OptionOf(field, o) ==
    CASE field = "title" -> o.searchTitle
      [] field = "subtitle" -> o.searchTitle
      [] field = "author" -> o.searchAuthor
      [] field = "publisher" -> o.searchPublisher
      [] field = "description" -> o.searchDescription
      [] field = "ISBN" -> o.searchIsbn
      [] field = "status" -> o.searchStatus
      [] OTHER -> FALSE

ValueOf(field, book) ==
    CASE field = "title" -> book.title
      [] field = "subtitle" -> book.subtitle
      [] field = "author" -> book.author
      [] field = "publisher" -> book.publisher
      [] field = "description" -> book.description
      [] field = "ISBN" -> book.isbn13
      [] field = "status" -> statusLabels(book.readingStatus)
      [] OTHER -> <<>>

\* The enabled fields of a book whose value contains the query, letter case
\* apart, as indices of FieldNames.
Candidates(book, o, q) ==
    {i \in 1..Len(FieldNames) :
        /\ OptionOf(FieldNames[i], o)
        /\ ContainsIgnoringCase(ValueOf(FieldNames[i], book), q)}

\* C30: a searchAll call with an empty or all-blank query returns the empty
\* list and calls neither fetch function. Otherwise a book has a result
\* exactly when one of its enabled fields contains the query, letter case
\* apart, it has one result only, and the result names the first such field
\* in the order title, subtitle, author, publisher, description, ISBN, status
\* label; no result names a field whose option is off; a note has at most one
\* result, and none unless searchNotes is on; no note result comes before a
\* book result.
C30_SearchAllShape ==
    lastSearch.called =>
        LET q == lastSearch.query
            o == lastSearch.options
            r == lastSearch.results
            BookHits(b) ==
                {k \in 1..Len(r) : r[k].type = "book" /\ r[k].book = b}
            NoteHits(b, n) ==
                {k \in 1..Len(r) :
                    r[k].type = "note" /\ r[k].book = b /\ r[k].note = n}
        IN  IF \A k \in 1..Len(q) : q[k] \in Blank
            THEN r = <<>> /\ lastSearch.fetches = <<>>
            ELSE /\ \A k \in 1..Len(r) : r[k].book \in 1..Len(library)
                 /\ \A b \in 1..Len(library) :
                       LET first == Candidates(library[b], o, q)
                       IN  /\ Cardinality(BookHits(b)) <= 1
                           /\ BookHits(b) # {} <=> first # {}
                           /\ \A k \in BookHits(b) :
                                 /\ r[k].matchedField \in
                                        {FieldNames[i] : i \in first}
                                 /\ \A i \in first :
                                       r[k].matchedField = FieldNames[i]
                                           => \A j \in first : i <= j
                 /\ \A k \in 1..Len(r) :
                       r[k].type = "book" => OptionOf(r[k].matchedField, o)
                 /\ \A b \in 1..Len(library) :
                       \A n \in 1..Len(library[b].notes) :
                           Cardinality(NoteHits(b, n)) <= 1
                 /\ (\E k \in 1..Len(r) : r[k].type = "note") => o.searchNotes
                 /\ \A i \in 1..Len(r) :
                       \A j \in (i + 1)..Len(r) :
                           ~(r[i].type = "note" /\ r[j].type = "book")

\* With the title option off, a query in capitals found the first book by
\* its author, although its title matches too, the second book by its
\* publisher, its subtitle being off with the title, and two notes behind
\* both books.
C30_Witness ==
    /\ lastSearch.called
    /\ lastSearch.query = <<"H">>
    /\ ~lastSearch.options.searchTitle
    /\ lastSearch.options.searchAuthor
    /\ lastSearch.options.searchPublisher
    /\ lastSearch.options.searchNotes
    /\ Len(library) = 2
    /\ library[1].title = <<"H", "x">>
    /\ library[2].subtitle = <<"h">>
    /\ Len(lastSearch.results) = 4
    /\ lastSearch.results[1] =
           [type |-> "book", book |-> 1, note |-> 0, matchedField |-> "author"]
    /\ lastSearch.results[2] =
           [type |-> "book", book |-> 2, note |-> 0, matchedField |-> "publisher"]
    /\ lastSearch.results[3] =
           [type |-> "note", book |-> 1, note |-> 1, matchedField |-> "noteTitle"]
    /\ lastSearch.results[4] =
           [type |-> "note", book |-> 1, note |-> 2, matchedField |-> "noteContent"]

====
